---- MODULE Spec2Model ----
(***************************************************************************)
(* A model of danilib's profiler (src/src/dani_profiler.h) with the assert *)
(* macros of src/src/dani_base.h.                                          *)
(*                                                                         *)
(* Build configuration modelled: DANI_PROFILER_ENABLED 1,                  *)
(* DANI_PROFILER_MIN_MAX 1.  NDEBUG and DANI_PROFILER_PAGE_FAULTS are      *)
(* build choices held in ndebug and page_faults; the specifications fix    *)
(* or draw them in their initial predicates.                               *)
(*                                                                         *)
(* u64 values.  TLC's integers are 32 bits wide, so a u64 is represented   *)
(* by its residue of least absolute value modulo 2^64: the integer r with  *)
(* -2^63 <= r < 2^63 stands for r when r >= 0 and for 2^64 + r when r < 0. *)
(* Addition and subtraction modulo 2^64 are then the integer operations    *)
(* (all values of the model stay within a few ticks of 0 or of 2^64), and  *)
(* the unsigned order is U64Less below: every r < 0 stands for a value     *)
(* above every r >= 0.                                                     *)
(***************************************************************************)
EXTENDS Integers, Sequences, FiniteSets, TLC

(***************************************************************************)
(* Bounds of the model.                                                    *)
(***************************************************************************)
\* The largest value the cycle counter takes.
MaxTick == 4
\* The most cycles the counter advances between two reads.
MaxStep == 2
\* The most beginZone calls of one session.
MaxZones == 3
\* The most ticks QueryPerformanceCounter advances between two reads.
MaxOsStep == 2
\* The threads that call dani_GetNextProfilerZoneIndex.
NumThreads == 2
\* The largest value the process's page fault count takes.
MaxPageFaults == 2
\* The most page faults between two reads of the count.
MaxPfStep == 1

(***************************************************************************)
(* Program constants.                                                      *)
(***************************************************************************)
\* #define DANI_PROFILER_ENTRIES_MAX: the header lets the build set it; the
\* model is built with a table of 4 entries.
DANI_PROFILER_ENTRIES_MAX == 4

\* The indices of g_dani_profiler.entries.
EntryIndices == 0 .. (DANI_PROFILER_ENTRIES_MAX - 1)

\* The call sites instrumented with dani_Profile / dani_ProfileBandwidth, one
\* more than the table has room for besides the root entry 0.
Sites == 1 .. DANI_PROFILER_ENTRIES_MAX

\* The byte_count argument of the call sites instrumented with dani_Profile.
ByteCounts == {0}

\* The byte_count arguments the call sites instrumented with
\* dani_ProfileBandwidth pass.
BandwidthByteCounts == {100, 300}

(***************************************************************************)
(* u64 arithmetic on residues.                                             *)
(***************************************************************************)
U64Add(a, b) == a + b
U64Sub(a, b) == a - b
\* a < b as unsigned 64-bit values.
U64Less(a, b) ==
    \/ a >= 0 /\ b < 0
    \/ (a >= 0) = (b >= 0) /\ a < b
U64LessEq(a, b) == a = b \/ U64Less(a, b)

VARIABLES
    ndebug,         \* TRUE when the build defines NDEBUG
    page_faults,    \* TRUE when the build sets DANI_PROFILER_PAGE_FAULTS to 1
    pc,             \* "idle", "running", "ended", "trapped" or "oob"
    counter,        \* g_dani_profiler_entry_index_conter
    site_index,     \* the static __dani_profile_<var>_index of each call site
    entries,        \* g_dani_profiler.entries
    start_ticks,    \* g_dani_profiler.start_ticks
    end_ticks,      \* g_dani_profiler.end_ticks
    current_index,  \* g_dani_profiler.current_index
    start_page_faults,  \* g_dani_profiler.start_page_faults
    end_page_faults,    \* g_dani_profiler.end_page_faults
    tsc,            \* the CPU's time stamp counter
    zones,          \* the dani_profiler_zone values the caller holds, innermost last
    pf_handle,      \* TRUE when g_dani_profiler_process_handle lets the count be read
    pf_now,         \* the process's page fault count
    open,           \* history: the call stack of open zones: [entry, start, pf] and,
                    \* as the zone began, the entry's inclusive ticks (incl), its
                    \* hit count (hits) and the invocations it had begun (nth)
    begun,          \* history: beginZone calls per entry in this session
    elapsed_sum,    \* history: sum of the elapsed ticks of the ended invocations, per entry
    child_sum,      \* history: the same sum, per entry of the enclosing open zone
    parents,        \* history: per entry, the entries its invocations were nested in
    kids,           \* history: per entry, the invocations begun directly inside it
    ended,          \* history: per entry, the elapsed ticks of its ended invocations, in order
    ended_pf,       \* history: per entry, the page faults of its ended invocations, in order
    byte_counts,    \* history: per entry, the byte_count arguments of its beginZone calls, in order
    abandoned,      \* history: the zone the caller dropped last without ending it, if any
    \* ReadCPUTimerFrequency and the clocks it reads
    cal_pc,         \* "none", "call", "loop" or "done"
    os_stuck,       \* TRUE when QueryPerformanceCounter never advances
    os_now,         \* the value of the last QueryPerformanceCounter read
    wait_time_ms,   \* the argument
    os_frequency,   \* the locals, by their names
    os_wait_time,
    cpu_start,
    os_start,
    os_elapsed,
    cpu_elapsed,
    cal_result,     \* its local result
    cal_spin,       \* history: the parity of the number of loop iterations
    \* threads calling dani_GetNextProfilerZoneIndex
    reg_pc,         \* per thread: "idle", "check" (between the increment and the assertion)
    reg_result,     \* per thread: the local result
    reg_site,       \* per thread: the call site whose registration it runs, 0 when none
    handed,         \* history: the results of the increments, in their order
    returned,       \* history: the indices returned, in the order of the returns
    \* dani_PrintProfilingResults
    cpu_frequency,  \* its local cpu_frequency
    report,         \* the lines it printed
    divisions       \* history: the divisions it performed, by divisor

\* g_dani_profiler, the zones held and the history of the session.
sessionVars == <<entries, start_ticks, end_ticks, current_index,
                 start_page_faults, end_page_faults,
                 zones, open, begun, elapsed_sum, child_sum, parents, kids,
                 ended, ended_pf, byte_counts, abandoned>>

profVars == <<site_index, sessionVars>>

\* The build configuration.
build == <<ndebug, page_faults>>

\* The page fault count of the operating system and the handle to read it.
pfVars == <<pf_handle, pf_now>>

repVars == <<cpu_frequency, report, divisions>>

calVars == <<cal_pc, os_stuck, os_now, wait_time_ms, os_frequency, os_wait_time,
             cpu_start, os_start, os_elapsed, cpu_elapsed, cal_result, cal_spin>>

regVars == <<reg_pc, reg_result, reg_site, handed, returned>>

vars == <<build, pc, counter, tsc, profVars, calVars, regVars, pfVars, repVars>>

hist == <<open, begun, elapsed_sum, child_sum, parents, kids, ended, ended_pf,
          byte_counts, abandoned>>

\* struct __DANI_PROFILER_ENTRY, zeroed.
ZeroEntry ==
    [inclusive_ticks |-> 0, exclusive_ticks |-> 0, hit_counter |-> 0,
     processed_bytes_counter |-> 0, page_fault_counter |-> 0,
     inclusive_ticks_min |-> 0, inclusive_ticks_max |-> 0, name |-> 0]

\* static dani_profiler g_dani_profiler = {0};
ZeroEntries == [i \in EntryIndices |-> ZeroEntry]

ZeroHist == [i \in EntryIndices |-> 0]

\* Per entry, no invocation recorded.
NoneEnded == [i \in EntryIndices |-> <<>>]

\* No call of ReadCPUTimerFrequency is in progress.
CalNone ==
    /\ cal_pc = "none"
    /\ os_stuck = FALSE
    /\ os_now = 0
    /\ wait_time_ms = 0
    /\ os_frequency = 0
    /\ os_wait_time = 0
    /\ cpu_start = 0
    /\ os_start = 0
    /\ os_elapsed = 0
    /\ cpu_elapsed = 0
    /\ cal_result = 0
    /\ cal_spin = 0

\* No thread but the profiled one runs.
RegNone ==
    /\ reg_pc = <<>>
    /\ reg_result = <<>>
    /\ reg_site = <<>>
    /\ handed = <<>>
    /\ returned = <<>>

\* dani_PrintProfilingResults has not been called.
RepNone ==
    /\ cpu_frequency = 0
    /\ report = {}
    /\ divisions = {}

\* The profiler's globals as the program starts.
ProfInit ==
    /\ pc = "idle"
    /\ counter = 0
    /\ site_index = [s \in Sites |-> 0]
    /\ entries = ZeroEntries
    /\ start_ticks = 0
    /\ end_ticks = 0
    /\ current_index = 0
    /\ start_page_faults = 0
    /\ end_page_faults = 0
    /\ pf_now = 0
    /\ zones = <<>>
    /\ open = <<>>
    /\ begun = ZeroHist
    /\ elapsed_sum = ZeroHist
    /\ child_sum = ZeroHist
    /\ parents = [i \in EntryIndices |-> {}]
    /\ kids = ZeroHist
    /\ ended = NoneEnded
    /\ ended_pf = NoneEnded
    /\ byte_counts = NoneEnded
    /\ abandoned = <<>>
    /\ RepNone

\* The build without page fault metrics (the default), its counter at 0 as
\* the program starts.
Init ==
    /\ ndebug \in BOOLEAN
    /\ page_faults = FALSE
    /\ pf_handle = FALSE
    /\ tsc = 0
    /\ ProfInit
    /\ CalNone
    /\ RegNone

\* ReadStartCPUTimer / ReadEndCPUTimer: the counter has advanced by d cycles
\* since the last read and the read returns its value.
ReadCPUTimer(d) == tsc + d

\* The steps the counter may take before a read.
Steps == {d \in 0 .. MaxStep : tsc + d <= MaxTick}

\* ReadOSPageFaultCount: the count has advanced by p since the last read;
\* the read returns it, or 0 when GetProcessMemoryInfo fails.
ReadOSPageFaultCount(p) == IF pf_handle THEN pf_now + p ELSE 0

\* The page faults the process may take before a read.  The count is
\* followed only in the builds that read it, while the reads succeed.
PfSteps ==
    IF page_faults /\ pf_handle
    THEN {p \in 0 .. MaxPfStep : pf_now + p <= MaxPageFaults}
    ELSE {0}

\* The sum of f over the entry indices 0 .. n.
RECURSIVE SumTo(_, _)
SumTo(f, n) == IF n < 0 THEN 0 ELSE f[n] + SumTo(f, n - 1)

\* The entry of the innermost open zone of the call stack, 0 when none is open.
Enclosing(stack) == IF stack = <<>> THEN 0 ELSE stack[Len(stack)].entry

(***************************************************************************)
(* dani_BeginProfiling: memset of g_dani_profiler, the warm-up reads, then *)
(* start_ticks.  It may be called again after dani_EndProfiling.           *)
(***************************************************************************)
\* Mutant: without the memset of g_dani_profiler.
dani_BeginProfiling_NoReset ==
    /\ pc \in {"idle", "ended"}
    /\ \E d \in Steps, p \in PfSteps :
        /\ tsc' = tsc + d
        /\ pf_now' = pf_now + p
        /\ start_page_faults' =
                IF page_faults THEN ReadOSPageFaultCount(p) ELSE start_page_faults
        /\ start_ticks' = ReadCPUTimer(d)
    /\ pc' = "running"
    /\ open' = <<>>
    /\ begun' = ZeroHist
    /\ elapsed_sum' = ZeroHist
    /\ child_sum' = ZeroHist
    /\ parents' = [i \in EntryIndices |-> {}]
    /\ kids' = ZeroHist
    /\ ended' = NoneEnded
    /\ ended_pf' = NoneEnded
    /\ byte_counts' = NoneEnded
    /\ abandoned' = <<>>
    /\ UNCHANGED <<calVars, regVars, repVars, build, pf_handle, counter, site_index,
                   zones, entries, end_ticks, end_page_faults, current_index>>

dani_BeginProfiling ==
    /\ pc \in {"idle", "ended"}
    /\ \E d \in Steps, p \in PfSteps :
        /\ tsc' = tsc + d
        /\ pf_now' = pf_now + p
        /\ start_page_faults' = IF page_faults THEN ReadOSPageFaultCount(p) ELSE 0
        /\ start_ticks' = ReadCPUTimer(d)
    /\ entries' = ZeroEntries
    /\ end_ticks' = 0
    /\ end_page_faults' = 0
    /\ current_index' = 0
    /\ pc' = "running"
    /\ open' = <<>>
    /\ begun' = ZeroHist
    /\ elapsed_sum' = ZeroHist
    /\ child_sum' = ZeroHist
    /\ parents' = [i \in EntryIndices |-> {}]
    /\ kids' = ZeroHist
    /\ ended' = NoneEnded
    /\ ended_pf' = NoneEnded
    /\ byte_counts' = NoneEnded
    /\ abandoned' = <<>>
    /\ UNCHANGED <<calVars, regVars, repVars, build, pf_handle, counter, site_index,
                   zones>>

(***************************************************************************)
(* dani_EndProfiling.  The caller ends the session after its zones.        *)
(***************************************************************************)
dani_EndProfiling ==
    /\ pc = "running"
    /\ zones = <<>>
    /\ \E d \in Steps, p \in PfSteps :
        /\ tsc' = tsc + d
        /\ pf_now' = pf_now + p
        /\ end_ticks' = ReadCPUTimer(d)
        /\ end_page_faults' =
                IF page_faults THEN ReadOSPageFaultCount(p) ELSE end_page_faults
    /\ pc' = "ended"
    /\ UNCHANGED <<calVars, regVars, repVars, build, pf_handle, counter, site_index,
                   entries, start_ticks, start_page_faults, current_index, zones, hist>>

(***************************************************************************)
(* dani_GetNextProfilerZoneIndex.                                          *)
(***************************************************************************)
\* Mutant: the value before the increment is returned and kept.
InterlockedIncrement_Before(c) == c

\* _InterlockedIncrement: the incremented value, which it also returns.
InterlockedIncrement(c) == c + 1

\* The condition of the function's assertion.
AssertCondition(result) == result /= 0 /\ result < DANI_PROFILER_ENTRIES_MAX

\* dani_base.h: the assertion traps when its condition fails, unless the
\* build defines NDEBUG, which leaves only the evaluation of the condition.
Traps(result) == ~ndebug /\ ~AssertCondition(result)

(***************************************************************************)
(* dani_BeginProfilingZone(name, index, byte_count), the counter having    *)
(* advanced by d and the page fault count by p at their reads.             *)
(***************************************************************************)
\* Mutant: the zone does not remember the zone that was current.
BeginZoneValue_RootParent(name, index, d, p) ==
    [name |-> name,
     start_ticks |-> ReadCPUTimer(d),
     start_page_faults |-> IF page_faults THEN ReadOSPageFaultCount(p) ELSE 0,
     inclusive_ticks |-> entries[index].inclusive_ticks,
     entry_index |-> index,
     parent_index |-> 0]

BeginZoneValue(name, index, d, p) ==
    [name |-> name,
     start_ticks |-> ReadCPUTimer(d),
     start_page_faults |-> IF page_faults THEN ReadOSPageFaultCount(p) ELSE 0,
     inclusive_ticks |-> entries[index].inclusive_ticks,
     entry_index |-> index,
     parent_index |-> current_index]

\* Mutant: the byte count of the call replaces the entry's counter.
BeginZoneBytes_Overwrite(es, index, byte_count) ==
    [es EXCEPT ![index].processed_bytes_counter = byte_count]

\* Mutant: the hit is counted as the zone begins.
BeginZoneBytes_CountHit(es, index, byte_count) ==
    [es EXCEPT ![index].processed_bytes_counter = U64Add(@, byte_count),
               ![index].hit_counter = @ + 1]

\* entry->processed_bytes_counter += byte_count;
BeginZoneBytes(es, index, byte_count) ==
    [es EXCEPT ![index].processed_bytes_counter = U64Add(@, byte_count)]

dani_BeginProfilingZone(name, index, byte_count, d, p) ==
    /\ entries' = BeginZoneBytes(entries, index, byte_count)
    /\ zones' = Append(zones, BeginZoneValue(name, index, d, p))
    /\ current_index' = index
    /\ tsc' = tsc + d
    /\ pf_now' = pf_now + p
    /\ open' = Append(open, [entry |-> index, start |-> tsc + d,
                             pf |-> ReadOSPageFaultCount(p),
                             incl |-> entries[index].inclusive_ticks,
                             hits |-> entries[index].hit_counter,
                             nth |-> begun[index]])
    /\ begun' = [begun EXCEPT ![index] = @ + 1]
    /\ byte_counts' = [byte_counts EXCEPT ![index] = Append(@, byte_count)]
    /\ abandoned' = [k \in DOMAIN abandoned |->
                        [abandoned[k] EXCEPT !.later = @ + 1]]
    /\ parents' = [parents EXCEPT ![index] = @ \cup {Enclosing(open)}]
    /\ kids' = [kids EXCEPT ![Enclosing(open)] = @ + 1]
    /\ UNCHANGED <<elapsed_sum, child_sum, ended, ended_pf, start_ticks, end_ticks,
                   start_page_faults, end_page_faults>>

(***************************************************************************)
(* The macro dani_ProfileBandwidth(var_name, zone_name, byte_count) at     *)
(* call site s: the memoized registration, then dani_BeginProfilingZone.   *)
(* The zone name of site s is s.                                           *)
(***************************************************************************)
\* The call sites are numbered in the order of their first execution: site s
\* runs for the first time after the sites below it.
FirstUseInOrder(s) == \A r \in Sites : r < s => site_index[r] /= 0

\* Mutant: the site calls dani_GetNextProfilerZoneIndex at every execution.
ProfileBegin_AlwaysRegister(s, byte_count, d, p) ==
    LET result == InterlockedIncrement(counter)
    IN  /\ FirstUseInOrder(s)
        /\ ~Traps(result)
        /\ result \in EntryIndices
        /\ counter' = result
        /\ site_index' = [site_index EXCEPT ![s] = result]
        /\ dani_BeginProfilingZone(s, result, byte_count, d, p)
        /\ UNCHANGED <<calVars, regVars, repVars, build, pf_handle, pc>>

\* The site is registered already, or its registration returns a valid index.
ProfileBegin(s, byte_count, d, p) ==
    LET first == site_index[s] = 0
        result == InterlockedIncrement(counter)
        index == IF first THEN result ELSE site_index[s]
    IN  /\ FirstUseInOrder(s)
        /\ first => ~Traps(result)
        /\ index \in EntryIndices
        /\ counter' = IF first THEN result ELSE counter
        /\ site_index' = [site_index EXCEPT ![s] = index]
        /\ dani_BeginProfilingZone(s, index, byte_count, d, p)
        /\ UNCHANGED <<calVars, regVars, repVars, build, pf_handle, pc>>

\* The registration traps: __debugbreak() halts the program.
ProfileTrap(s) ==
    /\ FirstUseInOrder(s)
    /\ site_index[s] = 0
    /\ Traps(InterlockedIncrement(counter))
    /\ counter' = InterlockedIncrement(counter)
    /\ pc' = "trapped"
    /\ UNCHANGED <<calVars, regVars, repVars, build, pfVars, site_index, entries,
                   start_ticks, end_ticks, start_page_faults, end_page_faults,
                   current_index, tsc, zones, hist>>

\* The registration returns an index past the table (NDEBUG build) and
\* dani_BeginProfilingZone writes g_dani_profiler.entries[index] out of
\* bounds: undefined behaviour, after which nothing is modelled.
ProfileOutOfBounds(s) ==
    LET first == site_index[s] = 0
        result == InterlockedIncrement(counter)
        index == IF first THEN result ELSE site_index[s]
    IN  /\ FirstUseInOrder(s)
        /\ first => ~Traps(result)
        /\ index \notin EntryIndices
        /\ counter' = IF first THEN result ELSE counter
        /\ site_index' = [site_index EXCEPT ![s] = index]
        /\ pc' = "oob"
        /\ UNCHANGED <<calVars, regVars, repVars, build, pfVars, entries,
                       start_ticks, end_ticks, start_page_faults, end_page_faults,
                       current_index, tsc, zones, hist>>

\* The caller runs call sites while the session runs.
SiteRuns == pc = "running" /\ SumTo(begun, DANI_PROFILER_ENTRIES_MAX - 1) < MaxZones

dani_ProfileBandwidth(s, byte_count) ==
    /\ SiteRuns
    /\ \E d \in Steps, p \in PfSteps : ProfileBegin(s, byte_count, d, p)

dani_ProfileBandwidth_Trap(s) == SiteRuns /\ ProfileTrap(s)

dani_ProfileBandwidth_OutOfBounds(s) == SiteRuns /\ ProfileOutOfBounds(s)

(***************************************************************************)
(* dani_EndProfilingZone(zone), the counter having advanced by d and the   *)
(* page fault count by p at their reads.                                   *)
(***************************************************************************)
\* Mutant: the parent's exclusive ticks are left alone.
EndZoneParent_Skip(es, zone, elapsed_ticks) == es

\* Mutant: the elapsed ticks are added to the parent's exclusive ticks.
EndZoneParent_Add(es, zone, elapsed_ticks) ==
    [es EXCEPT ![zone.parent_index].exclusive_ticks = U64Add(@, elapsed_ticks)]

\* parent->exclusive_ticks -= elapsed_ticks;
EndZoneParent(es, zone, elapsed_ticks) ==
    [es EXCEPT ![zone.parent_index].exclusive_ticks = U64Sub(@, elapsed_ticks)]

\* Mutant: the inclusive ticks are set from the entry as it is at the end of
\* the zone instead of from the zone's snapshot.
EndZoneEntry_NoSnapshot(es, zone, elapsed_ticks) ==
    LET e == es[zone.entry_index]
    IN  [es EXCEPT ![zone.entry_index] =
            [e EXCEPT !.inclusive_ticks = elapsed_ticks,
                      !.exclusive_ticks = U64Add(@, elapsed_ticks),
                      !.name = zone.name,
                      !.inclusive_ticks_min = elapsed_ticks,
                      !.inclusive_ticks_max = elapsed_ticks,
                      !.hit_counter = @ + 1]]

\* Mutant: the extremes are clamped at every invocation, the first included.
EndZoneEntry_ClampFirst(es, zone, elapsed_ticks) ==
    LET e == es[zone.entry_index]
    IN  [es EXCEPT ![zone.entry_index] =
            [e EXCEPT !.inclusive_ticks = U64Add(zone.inclusive_ticks, elapsed_ticks),
                      !.exclusive_ticks = U64Add(@, elapsed_ticks),
                      !.name = zone.name,
                      !.inclusive_ticks_min =
                          IF U64Less(elapsed_ticks, @) THEN elapsed_ticks ELSE @,
                      !.inclusive_ticks_max =
                          IF U64Less(@, elapsed_ticks) THEN elapsed_ticks ELSE @,
                      !.hit_counter = @ + 1]]

\* Mutant: the elapsed ticks are added to the entry's inclusive ticks as they
\* are at the end of the zone.
EndZoneEntry_AddToCurrent(es, zone, elapsed_ticks) ==
    LET e == es[zone.entry_index]
        minmax ==
            IF e.hit_counter = 0
            THEN [min |-> elapsed_ticks, max |-> elapsed_ticks]
            ELSE [min |-> IF U64Less(elapsed_ticks, e.inclusive_ticks_min)
                          THEN elapsed_ticks ELSE e.inclusive_ticks_min,
                  max |-> IF U64Less(e.inclusive_ticks_max, elapsed_ticks)
                          THEN elapsed_ticks ELSE e.inclusive_ticks_max]
    IN  [es EXCEPT ![zone.entry_index] =
            [e EXCEPT !.inclusive_ticks = U64Add(@, elapsed_ticks),
                      !.exclusive_ticks = U64Add(@, elapsed_ticks),
                      !.name = zone.name,
                      !.inclusive_ticks_min = minmax.min,
                      !.inclusive_ticks_max = minmax.max,
                      !.hit_counter = @ + 1]]

\* The updates of *entry, in the order of the code.
EndZoneEntry(es, zone, elapsed_ticks) ==
    LET e == es[zone.entry_index]
        minmax ==
            IF e.hit_counter = 0
            THEN [min |-> elapsed_ticks, max |-> elapsed_ticks]
            ELSE [min |-> IF U64Less(elapsed_ticks, e.inclusive_ticks_min)
                          THEN elapsed_ticks ELSE e.inclusive_ticks_min,
                  max |-> IF U64Less(e.inclusive_ticks_max, elapsed_ticks)
                          THEN elapsed_ticks ELSE e.inclusive_ticks_max]
    IN  [es EXCEPT ![zone.entry_index] =
            [e EXCEPT !.inclusive_ticks = U64Add(zone.inclusive_ticks, elapsed_ticks),
                      !.exclusive_ticks = U64Add(@, elapsed_ticks),
                      !.name = zone.name,
                      !.inclusive_ticks_min = minmax.min,
                      !.inclusive_ticks_max = minmax.max,
                      !.hit_counter = @ + 1]]

\* Mutant: the page faults of the invocation are added to the entry's count.
EndZonePageFaults_Accumulate(es, zone, end_pf) ==
    IF page_faults
    THEN [es EXCEPT ![zone.entry_index].page_fault_counter =
                        U64Add(@, U64Sub(end_pf, zone.start_page_faults))]
    ELSE es

\* entry->page_fault_counter = end_page_faults - zone.start_page_faults;
\* in the builds with DANI_PROFILER_PAGE_FAULTS.
EndZonePageFaults(es, zone, end_pf) ==
    IF page_faults
    THEN [es EXCEPT ![zone.entry_index].page_fault_counter =
                        U64Sub(end_pf, zone.start_page_faults)]
    ELSE es

\* The updates of g_dani_profiler for the zone value the caller passes.
EndZone(zone, d, p) ==
    LET elapsed_ticks == U64Sub(ReadCPUTimer(d), zone.start_ticks)
    IN  /\ tsc' = tsc + d
        /\ pf_now' = pf_now + p
        /\ entries' = EndZonePageFaults(
                          EndZoneEntry(EndZoneParent(entries, zone, elapsed_ticks),
                                       zone, elapsed_ticks),
                          zone, ReadOSPageFaultCount(p))
        /\ current_index' = zone.parent_index

dani_EndProfilingZone ==
    /\ pc = "running"
    /\ zones /= <<>>
    /\ \E d \in Steps, p \in PfSteps :
        LET top == open[Len(open)]
            rest == SubSeq(open, 1, Len(open) - 1)
            elapsed == (tsc + d) - top.start
        IN  /\ EndZone(zones[Len(zones)], d, p)
            /\ zones' = SubSeq(zones, 1, Len(zones) - 1)
            /\ open' = rest
            /\ elapsed_sum' = [elapsed_sum EXCEPT ![top.entry] = @ + elapsed]
            /\ child_sum' = [child_sum EXCEPT ![Enclosing(rest)] = @ + elapsed]
            /\ ended' = [ended EXCEPT ![top.entry] = Append(@, elapsed)]
            /\ ended_pf' = [ended_pf EXCEPT ![top.entry] =
                                Append(@, U64Sub(ReadOSPageFaultCount(p), top.pf))]
            /\ abandoned' = [k \in DOMAIN abandoned |->
                                [abandoned[k] EXCEPT !.below =
                                    IF Len(rest) < @ THEN Len(rest) ELSE @]]
    /\ UNCHANGED <<calVars, regVars, repVars, build, pf_handle, pc, counter, site_index,
                   start_ticks, end_ticks, start_page_faults, end_page_faults,
                   begun, parents, kids, byte_counts>>

Next ==
    \/ dani_BeginProfiling
    \/ dani_EndProfiling
    \/ \E s \in Sites, b \in ByteCounts : dani_ProfileBandwidth(s, b)
    \/ \E s \in Sites : dani_ProfileBandwidth_Trap(s)
    \/ \E s \in Sites : dani_ProfileBandwidth_OutOfBounds(s)
    \/ dani_EndProfilingZone

Spec == Init /\ [][Next]_vars

(***************************************************************************)
(* Properties of the zone accounting.                                      *)
(***************************************************************************)
\* The entries call sites can register: every entry but the root entry 0.
ZoneEntries == EntryIndices \ {0}

\* An invocation of entry i is open.
IsOpen(i) == \E k \in DOMAIN open : open[k].entry = i

\* The exclusive ticks of the entries, as a function of the index.
Exclusive == [i \in EntryIndices |-> entries[i].exclusive_ticks]

\* P was invoked once and wraps the only invocation of the leaf C; both ended.
ParentWrapsChild(P, C) ==
    /\ P /= C
    /\ begun[P] = 1 /\ begun[C] = 1
    /\ parents[C] = {P}
    /\ kids[P] = 1 /\ kids[C] = 0
    /\ ~IsOpen(P) /\ ~IsOpen(C)

\* C1: for a parent zone P wrapping one child zone C, each invoked once, after
\* both endZone calls P's inclusive ticks are P's elapsed ticks, P's exclusive
\* ticks are P's elapsed ticks minus C's, not below 0, and C's inclusive and
\* exclusive ticks are both C's elapsed ticks.
C1_ParentChild ==
    \A P, C \in ZoneEntries :
        ParentWrapsChild(P, C) =>
            /\ entries[P].inclusive_ticks = elapsed_sum[P]
            /\ entries[P].exclusive_ticks = U64Sub(elapsed_sum[P], elapsed_sum[C])
            /\ entries[C].inclusive_ticks = elapsed_sum[C]
            /\ entries[C].exclusive_ticks = elapsed_sum[C]
            /\ entries[P].exclusive_ticks >= 0

C1_Witness ==
    \E P, C \in ZoneEntries :
        /\ ParentWrapsChild(P, C)
        /\ elapsed_sum[C] > 0
        /\ elapsed_sum[P] > elapsed_sum[C]
        /\ entries[P].hit_counter = 1 /\ entries[C].hit_counter = 1

\* C2: once no zone is open, the exclusive ticks of every registered entry
\* are the elapsed ticks of its own invocations minus the elapsed ticks of
\* the invocations made directly inside it.
C2_ExclusiveIsOwnTime ==
    open = <<>> =>
        \A i \in ZoneEntries :
            entries[i].exclusive_ticks = U64Sub(elapsed_sum[i], child_sum[i])

C2_Witness ==
    /\ open = <<>>
    /\ \E i \in ZoneEntries :
        /\ kids[i] >= 2
        /\ child_sum[i] > 0
        /\ elapsed_sum[i] > child_sum[i]
        /\ entries[i].hit_counter >= 1

\* C3 as claimed: with no zone open, exclusive_ticks <= inclusive_ticks as
\* u64 for every entry of the table.
C3_Original ==
    zones = <<>> =>
        \A i \in EntryIndices :
            U64LessEq(entries[i].exclusive_ticks, entries[i].inclusive_ticks)

\* C3, amended: with no zone open, exclusive_ticks <= inclusive_ticks as u64
\* for every entry of the table but the root entry 0.
C3_ExclusiveLeInclusive ==
    zones = <<>> =>
        \A i \in ZoneEntries :
            U64LessEq(entries[i].exclusive_ticks, entries[i].inclusive_ticks)

C3_Witness ==
    /\ zones = <<>>
    /\ \E i \in ZoneEntries :
        /\ entries[i].hit_counter >= 1
        /\ child_sum[i] > 0
        /\ U64Less(entries[i].exclusive_ticks, entries[i].inclusive_ticks)

\* Entry i was invoked, never inside a zone and never around one, and none of
\* its invocations is open.
Unnested(i) ==
    /\ begun[i] >= 1
    /\ parents[i] = {0}
    /\ kids[i] = 0
    /\ ~IsOpen(i)

\* C4: for an un-nested zone without children, after N matched begin/end
\* pairs the exclusive ticks equal the inclusive ticks, both are the sum of
\* the N elapsed intervals, and the hit count is N.
C4_UnnestedZone ==
    \A i \in ZoneEntries :
        Unnested(i) =>
            /\ entries[i].exclusive_ticks = entries[i].inclusive_ticks
            /\ entries[i].inclusive_ticks = elapsed_sum[i]
            /\ entries[i].hit_counter = begun[i]

C4_Witness ==
    \E i \in ZoneEntries :
        /\ Unnested(i)
        /\ begun[i] >= 3
        /\ elapsed_sum[i] >= 3

\* P contains C contains G, each invoked once, P is the only top-level zone
\* and spans the session, which has ended.
ThreeLevels(P, C, G) ==
    /\ pc = "ended"
    /\ open = <<>>
    /\ begun[P] = 1 /\ begun[C] = 1 /\ begun[G] = 1
    /\ parents[P] = {0} /\ parents[C] = {P} /\ parents[G] = {C}
    /\ kids[0] = 1 /\ kids[P] = 1 /\ kids[C] = 1 /\ kids[G] = 0
    /\ elapsed_sum[P] = U64Sub(end_ticks, start_ticks)

\* C5 as claimed: the exclusive ticks of all entries of the table sum to the
\* session's elapsed ticks.
C5_Original ==
    \A P, C, G \in ZoneEntries :
        ThreeLevels(P, C, G) =>
            SumTo(Exclusive, DANI_PROFILER_ENTRIES_MAX - 1)
                = U64Sub(end_ticks, start_ticks)

\* C5, amended: the exclusive ticks of all entries but the root entry 0 sum
\* to the session's elapsed ticks.
C5_ExclusiveSum ==
    \A P, C, G \in ZoneEntries :
        ThreeLevels(P, C, G) =>
            SumTo(Exclusive, DANI_PROFILER_ENTRIES_MAX - 1) - Exclusive[0]
                = U64Sub(end_ticks, start_ticks)

C5_Witness ==
    \E P, C, G \in ZoneEntries :
        /\ ThreeLevels(P, C, G)
        /\ elapsed_sum[G] > 0
        /\ elapsed_sum[C] > elapsed_sum[G]
        /\ elapsed_sum[P] > elapsed_sum[C]

(***************************************************************************)
(* Properties of the table's capacity.                                     *)
(***************************************************************************)
\* C9 as claimed: dani_GetNextProfilerZoneIndex never returns an index past
\* the table to its caller, and no beginZone accesses the table out of bounds.
C9_Original ==
    /\ \A s \in Sites : site_index[s] < DANI_PROFILER_ENTRIES_MAX
    /\ pc /= "oob"

\* C10 as claimed: the registrations of DANI_PROFILER_ENTRIES_MAX distinct
\* zones succeed; only a registration after them is fatal.
C10_Original ==
    pc \in {"trapped", "oob"} => counter > DANI_PROFILER_ENTRIES_MAX

(***************************************************************************)
(* ReadCPUTimerFrequency(wait_time_ms), one action per pass through its    *)
(* loop.  The products and quotients below are of values far below 2^64.   *)
(***************************************************************************)
\* The values QueryPerformanceFrequency returns on the machines modelled, in
\* counts per second.
Frequencies == {10, 25, 30}

\* The arguments: dani_PrintProfilingResults passes 100.
WaitTimes == {100, 200}

\* The ticks QueryPerformanceCounter may advance before a read.
OsSteps == IF os_stuck THEN {0} ELSE 0 .. MaxOsStep

CalInit ==
    /\ ndebug = FALSE
    /\ page_faults = FALSE
    /\ pf_handle = FALSE
    /\ tsc = 0
    /\ ProfInit
    /\ RegNone
    /\ cal_pc = "call"
    /\ os_stuck \in BOOLEAN
    /\ os_now = 0
    /\ wait_time_ms \in WaitTimes
    /\ os_frequency = 0
    /\ os_wait_time = 0
    /\ cpu_start = 0
    /\ os_start = 0
    /\ os_elapsed = 0
    /\ cpu_elapsed = 0
    /\ cal_result = 0
    /\ cal_spin = 0

\* From the entry of the function to the loop: os_frequency, os_wait_time,
\* cpu_start, os_start, os_elapsed = 0.
CalEnter ==
    /\ cal_pc = "call"
    /\ \E f \in Frequencies, c \in Steps, d \in OsSteps :
        /\ os_frequency' = f
        /\ os_wait_time' = (f * wait_time_ms) \div 1000
        /\ tsc' = tsc + c
        /\ cpu_start' = ReadCPUTimer(c)
        /\ os_now' = os_now + d
        /\ os_start' = os_now + d
    /\ os_elapsed' = 0
    /\ cal_pc' = "loop"
    /\ UNCHANGED <<build, pfVars, repVars, pc, counter, profVars, regVars, os_stuck,
                   wait_time_ms, cpu_elapsed, cal_result, cal_spin>>

\* Mutant: the loop waits for the first advance of the reference clock only.
CalWaiting_FirstAdvance == os_elapsed = 0

\* while (os_elapsed < os_wait_time)
CalWaiting == U64Less(os_elapsed, os_wait_time)

\* One pass through the loop body, the reference clock having advanced by d
\* and the cycle counter by c.
CalLoopRead(d, c) ==
    /\ cal_pc = "loop"
    /\ CalWaiting
    /\ os_now' = os_now + d
    /\ os_elapsed' = U64Sub(os_now + d, os_start)
    /\ tsc' = tsc + c
    /\ cal_spin' = 1 - cal_spin
    /\ UNCHANGED <<build, pfVars, repVars, pc, counter, profVars, regVars, cal_pc, os_stuck,
                   wait_time_ms, os_frequency, os_wait_time, cpu_start,
                   os_start, cpu_elapsed, cal_result>>

CalLoop == \E d \in OsSteps, c \in Steps : CalLoopRead(d, c)

\* A pass through the loop that sees the reference clock advanced.
CalLoopAdvance == \E d \in OsSteps \ {0}, c \in Steps : CalLoopRead(d, c)

\* Mutant: the quotient is taken by the wait asked for.
CalResult_ByWait(f, ce, oe) == IF oe /= 0 THEN (f * ce) \div os_wait_time ELSE 0

\* if (os_elapsed) result = os_frequency * cpu_elapsed / os_elapsed;
CalResult(f, ce, oe) == IF oe /= 0 THEN (f * ce) \div oe ELSE 0

\* The loop is left: cpu_end, cpu_elapsed, result, return.
CalReturn ==
    /\ cal_pc = "loop"
    /\ ~CalWaiting
    /\ \E c \in Steps :
        /\ tsc' = tsc + c
        /\ cpu_elapsed' = U64Sub(ReadCPUTimer(c), cpu_start)
        /\ cal_result' = CalResult(os_frequency,
                                   U64Sub(ReadCPUTimer(c), cpu_start), os_elapsed)
    /\ cal_pc' = "done"
    /\ UNCHANGED <<build, pfVars, repVars, pc, counter, profVars, regVars, os_stuck, os_now,
                   wait_time_ms, os_frequency, os_wait_time, cpu_start,
                   os_start, os_elapsed, cal_spin>>

CalNext ==
    \/ CalEnter
    \/ CalLoop
    \/ CalReturn

\* The thread keeps running, and a reference clock that is not stuck is seen
\* advanced by some later read.
CalSpec ==
    /\ CalInit
    /\ [][CalNext]_vars
    /\ WF_vars(CalNext)
    /\ WF_vars(CalLoopAdvance)

\* C6 as claimed: when every ReadOSTimer read returns the same value,
\* ReadCPUTimerFrequency(100) returns, and returns 0.
C6_Original ==
    (os_stuck /\ wait_time_ms = 100) => <>(cal_pc = "done" /\ cal_result = 0)

\* What holds when the call has returned: the reference clock advanced by at
\* least frequency * waitMillis / 1000 since os_start, and the result is
\* frequency * cycleDelta / referenceDelta.
CalReturned ==
    cal_pc = "done" =>
        /\ os_now - os_start >= (os_frequency * wait_time_ms) \div 1000
        /\ os_now - os_start > 0
        /\ cal_result = (os_frequency * (tsc - cpu_start)) \div (os_now - os_start)

\* C7: with a reference clock that keeps advancing the busy-wait ends, it
\* ends only once the clock has advanced by frequency * waitMillis / 1000
\* ticks since os_start, and the function then returns
\* referenceFrequency * cycleDelta / referenceDelta.
C7_BusyWaitBounded ==
    /\ []CalReturned
    /\ ~os_stuck => <>(cal_pc = "done")

C7_Witness ==
    /\ cal_pc = "done"
    /\ ~os_stuck
    /\ os_elapsed > os_wait_time
    /\ os_wait_time >= 2
    /\ cal_spin = 0
    /\ cal_result > 0

(***************************************************************************)
(* dani_GetNextProfilerZoneIndex called from several threads: the          *)
(* interlocked increment is one step, the assertion and the return         *)
(* another.                                                                *)
(***************************************************************************)
Threads == 1 .. NumThreads

\* The calls modelled: enough for the counter to pass the table's size.
MaxCalls == DANI_PROFILER_ENTRIES_MAX + 1

RegInit ==
    /\ ndebug \in BOOLEAN
    /\ page_faults = FALSE
    /\ pf_handle = FALSE
    /\ tsc = 0
    /\ ProfInit
    /\ CalNone
    /\ reg_pc = [t \in Threads |-> "idle"]
    /\ reg_result = [t \in Threads |-> 0]
    /\ reg_site = [t \in Threads |-> 0]
    /\ handed = <<>>
    /\ returned = <<>>

\* Mutant: the increment is a load and a store, two steps of the thread.
RegIncrement_NotAtomic(t) ==
    /\ pc = "idle"
    /\ \/ /\ reg_pc[t] = "idle"
          /\ counter < MaxCalls
          /\ reg_result' = [reg_result EXCEPT ![t] = counter]
          /\ reg_pc' = [reg_pc EXCEPT ![t] = "loaded"]
          /\ UNCHANGED <<counter, handed>>
       \/ /\ reg_pc[t] = "loaded"
          /\ counter' = reg_result[t] + 1
          /\ reg_result' = [reg_result EXCEPT ![t] = @ + 1]
          /\ handed' = Append(handed, reg_result[t] + 1)
          /\ reg_pc' = [reg_pc EXCEPT ![t] = "check"]
    /\ UNCHANGED <<build, pfVars, repVars, pc, tsc, profVars, calVars, reg_site,
                   returned>>

\* u32 result = (u32)_InterlockedIncrement(&g_dani_profiler_entry_index_conter);
RegIncrement(t) ==
    /\ pc = "idle"
    /\ reg_pc[t] = "idle"
    /\ counter < MaxCalls
    /\ counter' = InterlockedIncrement(counter)
    /\ reg_result' = [reg_result EXCEPT ![t] = InterlockedIncrement(counter)]
    /\ handed' = Append(handed, InterlockedIncrement(counter))
    /\ reg_pc' = [reg_pc EXCEPT ![t] = "check"]
    /\ UNCHANGED <<build, pfVars, repVars, pc, tsc, profVars, calVars, reg_site,
                   returned>>

\* The assertion holds, or the build has none: return (result).
RegReturn(t) ==
    /\ pc = "idle"
    /\ reg_pc[t] = "check"
    /\ ~Traps(reg_result[t])
    /\ returned' = Append(returned, reg_result[t])
    /\ reg_pc' = [reg_pc EXCEPT ![t] = "idle"]
    /\ UNCHANGED <<build, pfVars, repVars, pc, counter, tsc, profVars, calVars,
                   reg_result, reg_site, handed>>

\* The assertion fails: __debugbreak() halts the program.
RegTrap(t) ==
    /\ pc = "idle"
    /\ reg_pc[t] = "check"
    /\ Traps(reg_result[t])
    /\ pc' = "trapped"
    /\ UNCHANGED <<build, pfVars, repVars, counter, tsc, profVars, calVars, regVars>>

RegNext ==
    \/ \E t \in Threads : RegIncrement(t)
    \/ \E t \in Threads : RegReturn(t)
    \/ \E t \in Threads : RegTrap(t)

RegSpec == RegInit /\ [][RegNext]_vars

\* C8: under any interleaving of calls from several threads the first index
\* handed out is 1, 0 is never returned, and no two calls return the same
\* index.
C8_ConcurrentIndices ==
    /\ handed /= <<>> => handed[1] = 1
    /\ \A k \in DOMAIN returned : returned[k] /= 0
    /\ \A j, k \in DOMAIN returned : j /= k => returned[j] /= returned[k]
    /\ \A t, u \in Threads :
        (t /= u /\ reg_pc[t] = "check" /\ reg_pc[u] = "check")
            => reg_result[t] /= reg_result[u]

\* Two calls overlapped and returned against the order of their increments.
C8_Witness ==
    /\ Len(returned) >= 3
    /\ returned[1] = 2
    /\ returned[2] = 1

(***************************************************************************)
(* Properties of the chain of parent indices.                              *)
(***************************************************************************)
\* C20: in every state reached by well-nested begin/end calls, current_index
\* is the entry index of the innermost open zone of the call stack (0 when
\* none is open), and the parent_index of every open zone is the entry index
\* of the zone directly below it on the call stack (0 for the bottom zone).
C20_ParentChainIsCallStack ==
    /\ Len(zones) = Len(open)
    /\ current_index = Enclosing(open)
    /\ \A k \in DOMAIN zones :
        /\ zones[k].entry_index = open[k].entry
        /\ zones[k].parent_index = IF k = 1 THEN 0 ELSE open[k - 1].entry

\* Two zones are open inside a third after another zone has ended.
C20_Witness ==
    /\ Len(open) = 2
    /\ open[1].entry /= open[2].entry
    /\ current_index = open[2].entry
    /\ zones[2].parent_index = open[1].entry
    /\ \E i \in ZoneEntries : entries[i].hit_counter >= 1

(***************************************************************************)
(* Properties of recursive zones.                                          *)
(***************************************************************************)
\* The step ends the outermost open invocation of entry e.
OutermostEnds(e) ==
    /\ open /= <<>>
    /\ open' = SubSeq(open, 1, Len(open) - 1)
    /\ open[Len(open)].entry = e
    /\ \A k \in DOMAIN open' : open'[k].entry /= e

\* The invocations of entry e begun since its outermost open invocation
\* began, that one included.
InvocationsSince(e) == begun[e] - open[Len(open)].nth

\* C21: when an entry was begun again while an invocation of it was open
\* (direct or mutual recursion), the end of the outermost invocation leaves
\* the entry's inclusive_ticks at their value before the outermost beginZone
\* plus the elapsed ticks of the outermost invocation alone, and its hit
\* count at its value before that beginZone plus the number of all the
\* invocations, the nested ones included.
C21_RecursionCountsOnce ==
    [][\A e \in ZoneEntries :
            (OutermostEnds(e) /\ InvocationsSince(e) >= 2) =>
                LET top == open[Len(open)]
                IN  /\ entries'[e].inclusive_ticks
                            = U64Add(top.incl, U64Sub(tsc', top.start))
                    /\ entries'[e].hit_counter = top.hits + InvocationsSince(e)
      ]_vars

\* An entry was invoked alone, then again with an invocation of itself
\* nested in it; the nested invocation took time, and so did the outer one
\* around it.
C21_Witness ==
    \E i \in ZoneEntries :
        /\ open = <<>>
        /\ Len(ended[i]) = 3
        /\ parents[i] = {0, i}
        /\ ended[i][1] > 0
        /\ ended[i][2] > 0
        /\ ended[i][3] > ended[i][2]
        /\ entries[i].inclusive_ticks = ended[i][1] + ended[i][3]
        /\ entries[i].hit_counter = 3

(***************************************************************************)
(* Properties of the memoized registration of a call site.                 *)
(***************************************************************************)
\* The step executes call site s: the caller holds one more zone, named s.
SiteExecutes(s) ==
    /\ Len(zones') = Len(zones) + 1
    /\ zones'[Len(zones')].name = s

\* C12: in a single thread every execution of a call site begins its zone on
\* the index the site holds, an execution of a site that holds an index
\* keeps that index and does not call dani_GetNextProfilerZoneIndex (the
\* counter stays), the counter moves only at the first execution of a site,
\* and two distinct sites hold distinct indices.
C12_IdempotentRegistration ==
    [][/\ \A s \in Sites :
            SiteExecutes(s) =>
                /\ zones'[Len(zones')].entry_index = site_index'[s]
                /\ site_index[s] /= 0 =>
                    /\ site_index'[s] = site_index[s]
                    /\ counter' = counter
       /\ \A s \in Sites : site_index[s] /= 0 => site_index'[s] = site_index[s]
       /\ counter' /= counter =>
            \E s \in Sites :
                /\ site_index[s] = 0
                /\ counter' = counter + 1
                /\ site_index'[s] \in {0, counter'}
       /\ \A s, r \in Sites :
            (s /= r /\ site_index'[s] /= 0 /\ site_index'[r] /= 0)
                => site_index'[s] /= site_index'[r]
      ]_vars

\* One site was executed twice in the session and another site once.
C12_Witness ==
    \E s, r \in Sites :
        /\ s /= r
        /\ site_index[s] \in ZoneEntries /\ site_index[r] \in ZoneEntries
        /\ begun[site_index[s]] >= 2
        /\ begun[site_index[r]] >= 1
        /\ counter = 2

(***************************************************************************)
(* Properties of the start of a session.                                   *)
(***************************************************************************)
\* The step is a call of dani_BeginProfiling: a session starts to run.
SessionBegins == pc /= "running" /\ pc' = "running"

SeqMin(q) == CHOOSE x \in {q[k] : k \in DOMAIN q} : \A k \in DOMAIN q : x <= q[k]
SeqMax(q) == CHOOSE x \in {q[k] : k \in DOMAIN q} : \A k \in DOMAIN q : x >= q[k]

\* C14: after any sequence of one or more completed invocations of an entry,
\* inclusive_ticks_min is the smallest and inclusive_ticks_max the largest of
\* the elapsed ticks of those invocations, also when the first invocation is
\* the extreme one.
C14_MinMax ==
    \A i \in ZoneEntries :
        ended[i] /= <<>> =>
            /\ entries[i].inclusive_ticks_min = SeqMin(ended[i])
            /\ entries[i].inclusive_ticks_max = SeqMax(ended[i])

\* Three invocations completed: the first is the longest, the second the
\* shortest.
C14_Witness ==
    \E i \in ZoneEntries :
        /\ Len(ended[i]) = 3
        /\ ended[i][2] < ended[i][3]
        /\ ended[i][3] < ended[i][1]
        /\ entries[i].hit_counter = 3

(***************************************************************************)
(* The build with DANI_PROFILER_PAGE_FAULTS 1.                             *)
(***************************************************************************)
\* The value of the cycle counter when the program starts is arbitrary;
\* these programs start one tick below the bound of the model.
LateStart == MaxTick - 1

\* InitialiseOSProfilingMetrics: OpenProcess gives a handle with which the
\* count can be read, or it does not.
PfInit ==
    /\ ndebug \in BOOLEAN
    /\ page_faults = TRUE
    /\ pf_handle \in BOOLEAN
    /\ tsc = LateStart
    /\ ProfInit
    /\ CalNone
    /\ RegNone

PfSpec == PfInit /\ [][Next]_vars

\* C19: with page fault metrics enabled, after each endZone the entry's
\* page_fault_counter is the count read at that endZone minus the count read
\* at the matching beginZone: the value of the most recently ended
\* invocation only, never a sum over the invocations.
C19_PageFaultsOverwritten ==
    \A i \in ZoneEntries :
        ended_pf[i] /= <<>> =>
            entries[i].page_fault_counter = ended_pf[i][Len(ended_pf[i])]

\* Two invocations of an entry ended with one page fault each.
C19_Witness ==
    \E i \in ZoneEntries :
        /\ Len(ended_pf[i]) = 2
        /\ ended_pf[i][1] = 1
        /\ ended_pf[i][2] = 1
        /\ entries[i].page_fault_counter = 1
        /\ entries[i].hit_counter = 2

(***************************************************************************)
(* Programs whose call sites pass byte counts (dani_ProfileBandwidth).     *)
(***************************************************************************)
ByteNext ==
    \/ dani_BeginProfiling
    \/ dani_EndProfiling
    \/ \E s \in Sites, b \in ByteCounts \cup BandwidthByteCounts :
            dani_ProfileBandwidth(s, b)
    \/ \E s \in Sites : dani_ProfileBandwidth_Trap(s)
    \/ \E s \in Sites : dani_ProfileBandwidth_OutOfBounds(s)
    \/ dani_EndProfilingZone

\* The default build, the program starting late in the counter's range.
LateInit ==
    /\ ndebug \in BOOLEAN
    /\ page_faults = FALSE
    /\ pf_handle = FALSE
    /\ tsc = LateStart
    /\ ProfInit
    /\ CalNone
    /\ RegNone

ByteSpec == LateInit /\ [][ByteNext]_vars

\* The sum of a sequence of numbers.
RECURSIVE SeqSum(_)
SeqSum(q) == IF q = <<>> THEN 0 ELSE q[1] + SeqSum(Tail(q))

\* C13: an entry's processed_bytes_counter is the sum of the byte_count
\* arguments of all beginZone calls for the entry since the session began
\* (100 then 300 gives 400): in every state, so the bytes of an invocation
\* are included before its endZone, and endZone leaves the sum as it is.
C13_BytesAreSumOfArguments ==
    \A i \in EntryIndices :
        entries[i].processed_bytes_counter = SeqSum(byte_counts[i])

\* 100 then 300 bytes: the first invocation ended, the second still open.
C13_Witness ==
    \E i \in ZoneEntries :
        /\ byte_counts[i] = <<100, 300>>
        /\ entries[i].processed_bytes_counter = 400
        /\ entries[i].hit_counter = 1
        /\ IsOpen(i)

(***************************************************************************)
(* dani_PrintProfilingResults.  The lines printed are pairs of the line's  *)
(* label and the entry index (or the value, for the lines of the totals).  *)
(* The divisions recorded are those by cpu_frequency, by hit_counter and   *)
(* by elapsed_total_ticks, each with the value of its divisor and the      *)
(* source line of the division.                                            *)
(***************************************************************************)
\* u64 division of values that stand for themselves.
U64Div(a, b) == a \div b

Division(divisor, by, at) == [divisor |-> divisor, by |-> by, at |-> at]

\* f64 seconds = ((f64)elapsed_ticks / (f64)cpu_frequency);
PrintProfilingTimes(elapsed_ticks, f) == {Division("cpu_frequency", f, 329)}

PrintInclusiveAndExclusiveProfilingTimes(elapsed_inclusive, elapsed_exclusive, elapsed_total, f) ==
    {Division("elapsed_total_ticks", elapsed_total, 397)}
        \cup PrintProfilingTimes(elapsed_inclusive, f)
        \cup IF elapsed_inclusive = elapsed_exclusive
             THEN {}
             ELSE {Division("elapsed_total_ticks", elapsed_total, 406)}
                      \cup PrintProfilingTimes(elapsed_exclusive, f)

PrintProfilingBandwidth(processed_bytes_count, elapsed_inclusive, f) ==
    {Division("cpu_frequency", f, 414)}

PrintInclusiveMinAndMaxProfilingTimes(elapsed_min, elapsed_max, elapsed_total, f) ==
    {Division("elapsed_total_ticks", elapsed_total, 425),
     Division("elapsed_total_ticks", elapsed_total, 430)}
        \cup PrintProfilingTimes(elapsed_min, f)
        \cup PrintProfilingTimes(elapsed_max, f)

\* if (entry->inclusive_ticks)
EntryPrinted(i) == entries[i].inclusive_ticks /= 0

\* Mutant: the averages are computed for every printed entry.
HasAverage_Always(i) == TRUE

\* if (entry->hit_counter > 1)
HasAverage(i) == entries[i].hit_counter > 1

\* Mutant: the extremes are printed when the minimum is not 0.
HasExtreme_MinNonZero(i) ==
    entries[i].hit_counter > 1 /\ entries[i].inclusive_ticks_min /= 0

\* if (entry->hit_counter > 1 && entry->inclusive_ticks_max)
HasExtreme(i) == entries[i].hit_counter > 1 /\ entries[i].inclusive_ticks_max /= 0

\* The lines printed for entry i.
EntryLines(i) ==
    IF EntryPrinted(i)
    THEN {<<"Total", i>>}
            \cup (IF HasAverage(i) THEN {<<"Average", i>>} ELSE {})
            \cup (IF HasExtreme(i) THEN {<<"Extreme", i>>} ELSE {})
    ELSE {}

\* The divisions of the average of entry i.
AverageDivisions(i, f, elapsed_total) ==
    LET entry == entries[i]
        average_inclusive == U64Div(entry.inclusive_ticks, entry.hit_counter)
        average_exclusive == U64Div(entry.exclusive_ticks, entry.hit_counter)
    IN  {Division("hit_counter", entry.hit_counter, 546),
         Division("hit_counter", entry.hit_counter, 547)}
            \cup PrintInclusiveAndExclusiveProfilingTimes(
                    average_inclusive, average_exclusive, elapsed_total, f)
            \cup (IF entry.processed_bytes_counter /= 0
                  THEN {Division("hit_counter", entry.hit_counter, 553)}
                          \cup PrintProfilingBandwidth(
                                  entry.processed_bytes_counter, average_inclusive, f)
                  ELSE {})
            \cup (IF page_faults /\ entry.page_fault_counter /= 0
                  THEN {Division("hit_counter", entry.hit_counter, 559)}
                  ELSE {})

\* The divisions performed for entry i.
EntryDivisions(i, f, elapsed_total) ==
    LET entry == entries[i]
    IN  IF EntryPrinted(i)
        THEN PrintInclusiveAndExclusiveProfilingTimes(
                    entry.inclusive_ticks, entry.exclusive_ticks, elapsed_total, f)
                \cup (IF entry.processed_bytes_counter /= 0
                      THEN PrintProfilingBandwidth(
                              entry.processed_bytes_counter, entry.inclusive_ticks, f)
                      ELSE {})
                \cup (IF HasAverage(i)
                      THEN AverageDivisions(i, f, elapsed_total) ELSE {})
                \cup (IF HasExtreme(i)
                      THEN PrintInclusiveMinAndMaxProfilingTimes(
                              entry.inclusive_ticks_min, entry.inclusive_ticks_max,
                              elapsed_total, f)
                      ELSE {})
        ELSE {}

\* Mutant: the lines of the totals and of the entries whatever cpu_frequency.
ReportBranch_Always(f) == TRUE

\* if (cpu_frequency)
ReportBranch(f) == f /= 0

ReportLines(f, elapsed_total) ==
    IF ReportBranch(f)
    THEN {<<"Total time", elapsed_total>>}
            \cup (IF page_faults
                  THEN {<<"Total page faults",
                          U64Sub(end_page_faults, start_page_faults)>>}
                  ELSE {})
            \cup UNION {EntryLines(i) : i \in EntryIndices}
    ELSE {<<"Total ticks", elapsed_total>>}

ReportDivisions(f, elapsed_total) ==
    IF ReportBranch(f)
    THEN PrintProfilingTimes(elapsed_total, f)
            \cup UNION {EntryDivisions(i, f, elapsed_total) : i \in EntryIndices}
    ELSE {}

\* ReadCPUTimerFrequency(100) returns 0 or its estimate (see CalResult).
EstimatedFrequencies == {0, 30}

\* The program prints the results after dani_EndProfiling; the counter
\* advances by d during the calibration.
dani_PrintProfilingResults ==
    /\ pc = "ended"
    /\ \E f \in EstimatedFrequencies, d \in Steps :
        LET elapsed_total_ticks == U64Sub(end_ticks, start_ticks)
        IN  /\ cpu_frequency' = f
            /\ tsc' = tsc + d
            /\ report' = ReportLines(f, elapsed_total_ticks)
            /\ divisions' = ReportDivisions(f, elapsed_total_ticks)
    /\ pc' = "reported"
    /\ UNCHANGED <<build, counter, profVars, calVars, regVars, pfVars>>

\* The build with page fault metrics, in which assertions trap, running
\* call sites instrumented with dani_ProfileBandwidth.
ReportInit ==
    /\ ndebug = FALSE
    /\ page_faults = TRUE
    /\ pf_handle = TRUE
    /\ tsc = LateStart
    /\ ProfInit
    /\ CalNone
    /\ RegNone

\* The byte_count argument of its call sites.
ReportByteCounts == {100}

ReportNext ==
    \/ dani_BeginProfiling
    \/ dani_EndProfiling
    \/ \E s \in Sites, b \in ReportByteCounts : dani_ProfileBandwidth(s, b)
    \/ \E s \in Sites : dani_ProfileBandwidth_Trap(s)
    \/ dani_EndProfilingZone
    \/ dani_PrintProfilingResults

ReportSpec == ReportInit /\ [][ReportNext]_vars

\* C17: when the estimated CPU frequency is 0, dani_PrintProfilingResults
\* prints only the line of the raw total ticks (end_ticks - start_ticks), no
\* line of an entry, and performs no division by the CPU frequency.
C17_ZeroFrequencyReport ==
    (pc = "reported" /\ cpu_frequency = 0) =>
        /\ report = {<<"Total ticks", U64Sub(end_ticks, start_ticks)>>}
        /\ \A v \in divisions : v.divisor /= "cpu_frequency"

\* The frequency was 0 and the table holds an entry that would be printed,
\* with an average.
C17_Witness ==
    /\ pc = "reported"
    /\ cpu_frequency = 0
    /\ end_ticks /= start_ticks
    /\ \E i \in ZoneEntries :
        entries[i].inclusive_ticks /= 0 /\ entries[i].hit_counter > 1

\* C18: dani_PrintProfilingResults divides by an entry's hit_counter only
\* when that hit_counter is above 1, and prints the averages of exactly the
\* printed entries whose hit_counter is above 1.
C18_NoDivisionByZeroHits ==
    pc = "reported" =>
        /\ \A v \in divisions : v.divisor = "hit_counter" => v.by > 1
        /\ \A i \in EntryIndices :
            <<"Average", i>> \in report
                <=> (<<"Total", i>> \in report /\ entries[i].hit_counter > 1)

\* Printed: an entry hit once, without average, and an entry hit twice whose
\* average divided its ticks, its bytes and its page faults by 2.
C18_Witness ==
    /\ pc = "reported"
    /\ \E i, j \in ZoneEntries :
        /\ entries[i].hit_counter = 1
        /\ <<"Total", i>> \in report
        /\ <<"Average", i>> \notin report
        /\ entries[j].hit_counter = 2
        /\ <<"Average", j>> \in report
        /\ \A at \in {546, 547, 553, 559} :
                Division("hit_counter", 2, at) \in divisions

(***************************************************************************)
(* The frame of the operations on g_dani_profiler.                         *)
(***************************************************************************)
\* The fields of g_dani_profiler besides the table and current_index.
session == <<start_ticks, end_ticks, start_page_faults, end_page_faults>>

\* The step is a dani_BeginProfilingZone: the caller holds one more zone.
ZoneBegins == Len(zones') = Len(zones) + 1

\* The step is a dani_EndProfilingZone of the innermost zone held.
ZoneEnds == Len(zones') = Len(zones) - 1

\* The step is a dani_EndProfiling.
SessionEnds == pc = "running" /\ pc' = "ended"

\* The step is a dani_PrintProfilingResults.
ReportPrinted == pc /= "reported" /\ pc' = "reported"

\* Entry i is the same before and after the step but for its field f.
SameBut(i, f) ==
    \A g \in DOMAIN ZeroEntry \ f : entries'[i][g] = entries[i][g]

\* C23: dani_BeginProfilingZone changes only the processed_bytes_counter of
\* its own entry and current_index; dani_EndProfilingZone changes only the
\* fields of the zone's own entry, the exclusive_ticks of its parent's entry
\* and current_index; dani_EndProfiling changes only end_ticks and
\* end_page_faults; dani_PrintProfilingResults changes nothing of
\* g_dani_profiler.
C23_Frame ==
    [][/\ ZoneBegins =>
            LET index == zones'[Len(zones')].entry_index
            IN  /\ \A i \in EntryIndices \ {index} : entries'[i] = entries[i]
                /\ SameBut(index, {"processed_bytes_counter"})
                /\ session' = session
       /\ ZoneEnds =>
            LET zone == zones[Len(zones)]
            IN  /\ \A i \in EntryIndices \ {zone.entry_index, zone.parent_index} :
                        entries'[i] = entries[i]
                /\ zone.parent_index /= zone.entry_index
                        => SameBut(zone.parent_index, {"exclusive_ticks"})
                /\ session' = session
       /\ SessionEnds =>
            /\ entries' = entries
            /\ current_index' = current_index
            /\ start_ticks' = start_ticks
            /\ start_page_faults' = start_page_faults
       /\ ReportPrinted =>
            /\ entries' = entries
            /\ current_index' = current_index
            /\ session' = session
      ]_vars

\* Reported: a zone that passed bytes ended inside a zone of another entry,
\* time and page faults passed, and the session's end was recorded.
C23_Witness ==
    /\ pc = "reported"
    /\ end_ticks /= start_ticks
    /\ end_page_faults /= start_page_faults
    /\ \E i, j \in ZoneEntries :
        /\ i /= j
        /\ parents[j] = {i}
        /\ entries[j].hit_counter = 1
        /\ entries[j].processed_bytes_counter = 100
        /\ entries[j].inclusive_ticks > 0
        /\ entries[j].page_fault_counter > 0
        /\ entries[i].hit_counter = 1
        /\ entries[i].exclusive_ticks = U64Sub(elapsed_sum[i], elapsed_sum[j])

(***************************************************************************)
(* The default build, from the start of the program to the report.         *)
(***************************************************************************)
RootNext ==
    \/ dani_BeginProfiling
    \/ dani_EndProfiling
    \/ \E s \in Sites, b \in ByteCounts : dani_ProfileBandwidth(s, b)
    \/ \E s \in Sites : dani_ProfileBandwidth_Trap(s)
    \/ \E s \in Sites : dani_ProfileBandwidth_OutOfBounds(s)
    \/ dani_EndProfilingZone
    \/ dani_PrintProfilingResults

RootSpec == Init /\ [][RootNext]_vars

\* The labels of the lines printed for an entry.
EntryLabels == {"Total", "Average", "Extreme"}

\* C22: the root entry 0 is only ever used as a parent.  The call sites
\* take their indices from dani_GetNextProfilerZoneIndex, so no zone held has
\* entry index 0; in every state entries[0].inclusive_ticks and
\* entries[0].hit_counter are 0 and entries[0].exclusive_ticks is 0 minus the
\* sum of the elapsed ticks of the ended top-level zones, modulo 2^64; and
\* dani_PrintProfilingResults prints no line for entry 0.
C22_RootEntryOnlyParent ==
    /\ \A k \in DOMAIN zones : zones[k].entry_index /= 0
    /\ entries[0].inclusive_ticks = 0
    /\ entries[0].hit_counter = 0
    /\ entries[0].exclusive_ticks = U64Sub(0, child_sum[0])
    /\ pc = "reported" => \A l \in EntryLabels : <<l, 0>> \notin report

\* Reported with a frequency: two top-level zones ended, one of them around
\* a nested zone that took time; the root's exclusive ticks have wrapped
\* below 0 and the report has the lines of other entries.
C22_Witness ==
    /\ pc = "reported"
    /\ cpu_frequency /= 0
    /\ kids[0] = 2
    /\ child_sum[0] >= 2
    /\ \E i \in ZoneEntries : 0 \notin parents[i] /\ elapsed_sum[i] > 0
    /\ U64Less(entries[0].inclusive_ticks, entries[0].exclusive_ticks)
    /\ entries[0].exclusive_ticks < 0
    /\ \E i \in ZoneEntries : <<"Total", i>> \in report

\* C24: with DANI_PROFILER_MIN_MAX, for every entry with hit_counter > 0,
\* inclusive_ticks_min <= inclusive_ticks_max in every state and
\* inclusive_ticks_max <= inclusive_ticks whenever no zone is open; an entry
\* with non-zero inclusive_ticks and hit_counter > 1 has a non-zero
\* inclusive_ticks_max, and when dani_PrintProfilingResults prints such an
\* entry it prints the line of its extremes.
C24_ExtremesOrdered ==
    /\ \A i \in EntryIndices :
        entries[i].hit_counter > 0 =>
            /\ U64LessEq(entries[i].inclusive_ticks_min, entries[i].inclusive_ticks_max)
            /\ zones = <<>> =>
                    U64LessEq(entries[i].inclusive_ticks_max, entries[i].inclusive_ticks)
    /\ \A i \in EntryIndices :
        (entries[i].inclusive_ticks /= 0 /\ entries[i].hit_counter > 1) =>
            /\ entries[i].inclusive_ticks_max /= 0
            /\ (pc = "reported" /\ <<"Total", i>> \in report)
                    => <<"Extreme", i>> \in report

\* Reported with a frequency: an entry hit more than once whose shortest
\* invocation took less than its longest and its longest less than all
\* together, and whose extremes were printed; and an entry hit once, printed
\* without.
C24_Witness ==
    /\ pc = "reported"
    /\ cpu_frequency /= 0
    /\ \E i, j \in ZoneEntries :
        /\ entries[i].hit_counter > 1
        /\ entries[i].inclusive_ticks_min < entries[i].inclusive_ticks_max
        /\ entries[i].inclusive_ticks_max < entries[i].inclusive_ticks
        /\ <<"Extreme", i>> \in report
        /\ entries[j].hit_counter = 1
        /\ <<"Total", j>> \in report
        /\ <<"Extreme", j>> \notin report

(***************************************************************************)
(* Callers that drop a zone without ending it: the dani_profiler_zone      *)
(* value goes out of scope and dani_EndProfilingZone is never called for   *)
(* it.  The zone dropped is the innermost one held: the zones begun after  *)
(* it have ended.  The history follows the zone X dropped last that was    *)
(* begun last: its entry, the number of zones held that were open when X   *)
(* began (orig), how many of those are still open (below) and the number   *)
(* of zones begun since X was dropped (later).  A zone that was open when  *)
(* X began and is dropped after X never ends either: X stays the zone      *)
(* followed and the zone is no longer counted.                             *)
(***************************************************************************)
\* Mutant: the zone unwinds current_index as it goes out of scope.
AbandonedCurrentIndex_Unwound(zone) == zone.parent_index

\* Nothing is called: g_dani_profiler.current_index stays.
AbandonedCurrentIndex(zone) == current_index

AbandonZone ==
    /\ pc = "running"
    /\ zones /= <<>>
    /\ current_index' = AbandonedCurrentIndex(zones[Len(zones)])
    /\ zones' = SubSeq(zones, 1, Len(zones) - 1)
    /\ open' = SubSeq(open, 1, Len(open) - 1)
    /\ abandoned' =
            IF abandoned /= <<>> /\ abandoned[1].below = Len(zones)
            THEN <<[abandoned[1] EXCEPT !.orig = @ - 1, !.below = @ - 1]>>
            ELSE <<[entry |-> zones[Len(zones)].entry_index,
                    orig |-> Len(zones) - 1,
                    below |-> Len(zones) - 1,
                    later |-> 0]>>
    /\ UNCHANGED <<build, pc, counter, tsc, calVars, regVars, pfVars, repVars,
                   site_index, entries, start_ticks, end_ticks, start_page_faults,
                   end_page_faults, begun, elapsed_sum, child_sum, parents, kids,
                   ended, ended_pf, byte_counts>>

AbandonNext ==
    \/ dani_BeginProfiling
    \/ dani_EndProfiling
    \/ \E s \in Sites, b \in ByteCounts : dani_ProfileBandwidth(s, b)
    \/ \E s \in Sites : dani_ProfileBandwidth_Trap(s)
    \/ \E s \in Sites : dani_ProfileBandwidth_OutOfBounds(s)
    \/ dani_EndProfilingZone
    \/ AbandonZone

AbandonSpec == LateInit /\ [][AbandonNext]_vars

\* The zones begun after the zone dropped last have all ended.
LaterZonesEnded == abandoned /= <<>> /\ Len(zones) = abandoned[1].below

\* C16 as claimed: whenever the zones begun after an abandoned zone X have
\* ended, current_index is X's entry index, also after zones that were open
\* when X began have ended.
C16_Original ==
    LaterZonesEnded => current_index = abandoned[1].entry

\* C16, amended: whenever the zones begun after an abandoned zone X have
\* ended and no zone that was open when X began has ended, current_index is
\* X's entry index.
C16_StaleCurrentIndex ==
    (LaterZonesEnded /\ abandoned[1].below = abandoned[1].orig)
        => current_index = abandoned[1].entry

\* X was dropped inside a zone of another entry, a zone begun after X has
\* ended, and the zone around X is still open.
C16_Witness ==
    /\ LaterZonesEnded
    /\ abandoned[1].below = abandoned[1].orig
    /\ abandoned[1].orig >= 1
    /\ abandoned[1].later >= 1
    /\ zones[Len(zones)].entry_index /= abandoned[1].entry
    /\ current_index = abandoned[1].entry

(***************************************************************************)
(* Threads that execute the memoized registration of the macro             *)
(* dani_ProfileBandwidth:                                                  *)
(*     static u32 index = 0;                                               *)
(*     if (index == 0) { index = dani_GetNextProfilerZoneIndex(); }        *)
(* The static is a plain u32 shared by the threads that execute the call   *)
(* site.  Its unsynchronized accesses are modelled as interleaved loads    *)
(* and stores, the least a build can produce.                              *)
(***************************************************************************)
\* The call sites the threads execute.
RaceSites == {1, 2}

\* if (index == 0): the thread loads the static of site s and finds 0.  A
\* thread that finds an index goes on without registering.
SiteTest(t, s) ==
    /\ pc = "idle"
    /\ reg_pc[t] = "idle"
    /\ site_index[s] = 0
    /\ reg_pc' = [reg_pc EXCEPT ![t] = "call"]
    /\ reg_site' = [reg_site EXCEPT ![t] = s]
    /\ UNCHANGED <<build, pfVars, repVars, pc, counter, tsc, profVars, calVars,
                   reg_result, handed, returned>>

\* dani_GetNextProfilerZoneIndex: the interlocked increment.
SiteIncrement(t) ==
    /\ pc = "idle"
    /\ reg_pc[t] = "call"
    /\ counter' = InterlockedIncrement(counter)
    /\ reg_result' = [reg_result EXCEPT ![t] = InterlockedIncrement(counter)]
    /\ handed' = Append(handed, InterlockedIncrement(counter))
    /\ reg_pc' = [reg_pc EXCEPT ![t] = "check"]
    /\ UNCHANGED <<build, pfVars, repVars, pc, tsc, profVars, calVars, reg_site,
                   returned>>

\* dani_GetNextProfilerZoneIndex returns: the assertion holds, or the build
\* has none.
SiteReturn(t) ==
    /\ pc = "idle"
    /\ reg_pc[t] = "check"
    /\ reg_site[t] /= 0
    /\ ~Traps(reg_result[t])
    /\ returned' = Append(returned, reg_result[t])
    /\ reg_pc' = [reg_pc EXCEPT ![t] = "store"]
    /\ UNCHANGED <<build, pfVars, repVars, pc, counter, tsc, profVars, calVars,
                   reg_result, reg_site, handed>>

\* index = result: the thread stores the static of its site.
SiteStore(t) ==
    /\ pc = "idle"
    /\ reg_pc[t] = "store"
    /\ site_index' = [site_index EXCEPT ![reg_site[t]] = reg_result[t]]
    /\ reg_pc' = [reg_pc EXCEPT ![t] = "idle"]
    /\ reg_site' = [reg_site EXCEPT ![t] = 0]
    /\ UNCHANGED <<build, pfVars, repVars, pc, counter, tsc, sessionVars, calVars,
                   reg_result, handed, returned>>

RaceNext ==
    \/ \E t \in Threads, s \in RaceSites : SiteTest(t, s)
    \/ \E t \in Threads : SiteIncrement(t)
    \/ \E t \in Threads : SiteReturn(t)
    \/ \E t \in Threads : RegTrap(t)
    \/ \E t \in Threads : SiteStore(t)

RaceSpec == RegInit /\ [][RaceNext]_vars

\* The call sites whose static holds an index or is about to be stored by a
\* thread that has incremented the counter.
SitesRegistered ==
    {s \in RaceSites :
        \/ site_index[s] /= 0
        \/ \E t \in Threads : reg_site[t] = s /\ reg_pc[t] \in {"check", "store"}}

\* C11 as claimed: when threads execute the memoized registration of the
\* same call site concurrently, the identity assignment happens at most once
\* for the site: the counter has advanced by exactly one for each site
\* registered.
C11_Original == counter = Cardinality(SitesRegistered)

====
